---- MODULE Spec2Model ----
(***************************************************************************)
(* Model of the PDF table-of-contents reconciliation pipeline              *)
(* (src/src/processor.py, src/src/openai_utils.py, src/src/constants.py).  *)
(*                                                                         *)
(* Python strings are sequences of one-character strings; Python lists     *)
(* and tuples are sequences; a dict whose iteration order matters is a     *)
(* sequence of <<key, value>> pairs, a dict that is only looked up is a    *)
(* function.                                                               *)
(***************************************************************************)
EXTENDS Integers, Sequences, FiniteSets, TLC

VARIABLES
    pc,                           \* position in generate_summary / the call under study
    document,                     \* the opened fitz.Document: a sequence of pages
    text_true_page_map,           \* the LinkPageIndex (dict: anchor text -> list of pages)
    built_map,                    \* the LinkPageIndex as get_text_true_page_mapping returned it
    section_subsection_page_map,  \* the DeclaredContentsMap
    table,                        \* the reconciled table (list of growing tuples)
    responses,                    \* the prompt service's outputs, in call order
    csv_file,                       \* the rows written to the CSV, or NotWritten
    error,                        \* the exception leaving the call, or NoError
    args,                         \* arguments of a direct find_closest_or_greater call
    ret,                          \* its outcome
    directory,                    \* os.listdir of the input directory, in listing order
    args_list,                    \* main.py's (input path, output path) pairs
    worker,                       \* state of each pool task of args_list
    files                         \* the output directory: <<path, task>> per write

vars == <<pc, document, text_true_page_map, built_map, section_subsection_page_map,
          table, responses, csv_file, error, args, ret,
          directory, args_list, worker, files>>

\* the variables of the directory driver (main.py)
pool_vars == <<directory, args_list, worker, files>>

-----------------------------------------------------------------------------
(* Bounds of the model.                                                    *)

MaxPage == 3        \* candidate pages of a direct resolution call are 0..MaxPage
MaxCands == 3       \* longest candidate list of a direct resolution call
TablePage == 2      \* link targets of a reconciliation input are 0..TablePage
TableCands == 2     \* longest candidate list of a reconciliation input
MaxLinks == 7       \* most links on one page
IndexPages == 2     \* most pages of a document given to the index builder alone
MaxFragments == 4   \* most text fragments in a document given to text extraction
MaxPrefix == 8      \* longest label prefix among the classifier responses

-----------------------------------------------------------------------------
(* Generic helpers for Python built-ins.                                   *)

NoError == "NoError"
NotWritten == "NotWritten"
None == "None"
\* args when no direct call is under study
Idle == [page_numbers |-> <<>>, previous_page |-> 0]

\* the directory driver before any directory is scanned
PoolIdle ==
    /\ directory = <<>>
    /\ args_list = <<>>
    /\ worker = <<>>
    /\ files = {}

Abs(x) == IF x < 0 THEN -x ELSE x

\* the element of a one-element set
Only(S) == CHOOSE x \in S : TRUE

RECURSIVE SeqsUpTo(_, _)
\* all sequences over S of length <= n
SeqsUpTo(S, n) ==
    IF n = 0 THEN {<<>>}
    ELSE LET shorter == SeqsUpTo(S, n - 1)
         IN  shorter \cup {Append(s, x) : s \in {t \in shorter : Len(t) = n - 1}, x \in S}

RECURSIVE InsertSorted(_, _)
InsertSorted(s, x) ==
    IF s = <<>> THEN <<x>>
    ELSE IF x < Head(s) THEN <<x>> \o s
    ELSE <<Head(s)>> \o InsertSorted(Tail(s), x)

RECURSIVE ListSort(_)
\* list.sort() on a list of ints: ascending
ListSort(s) == IF s = <<>> THEN <<>> ELSE InsertSorted(ListSort(SubSeq(s, 1, Len(s) - 1)), s[Len(s)])

-----------------------------------------------------------------------------
(* processor.find_closest_or_greater                                       *)

\* the loop without the early return of lines 90-92: the nearest candidate
\* below or at previous_page wins over a greater one
ClosestLoop_nearest(page_numbers, i, closest, previous_page) ==
    LET C == {page_numbers[k] : k \in DOMAIN page_numbers}
    IN  [returned |-> CHOOSE c \in C :
                         \A d \in C : \/ Abs(c - previous_page) < Abs(d - previous_page)
                                      \/ Abs(c - previous_page) = Abs(d - previous_page) /\ c <= d]

RECURSIVE ClosestLoop(_, _, _, _)
\* the for loop of lines 89-98 over the sorted list, from position i on
ClosestLoop(page_numbers, i, closest, previous_page) ==
    IF i > Len(page_numbers) THEN [returned |-> closest]
    ELSE IF page_numbers[i] >= previous_page THEN [returned |-> page_numbers[i]]
    ELSE ClosestLoop(page_numbers, i + 1,
                     IF Abs(page_numbers[i] - previous_page) < Abs(closest - previous_page)
                     THEN page_numbers[i] ELSE closest,
                     previous_page)

\* find_closest_or_greater without line 86 (the list is scanned unsorted)
find_closest_or_greater_unsorted(page_numbers, previous_page) ==
    IF Len(page_numbers) < 1
    THEN [raised |-> TRUE, value |-> None, page_numbers |-> page_numbers]
    ELSE [raised |-> FALSE,
          value |-> ClosestLoop(page_numbers, 1, page_numbers[1], previous_page).returned,
          page_numbers |-> page_numbers]

\* find_closest_or_greater without the guard of lines 82-83: an empty list
\* gives back previous_page
find_closest_or_greater_lenient(page_numbers, previous_page) ==
    IF Len(page_numbers) < 1
    THEN [raised |-> FALSE, value |-> previous_page, page_numbers |-> page_numbers]
    ELSE IF Len(page_numbers) = 1
    THEN [raised |-> FALSE, value |-> page_numbers[1], page_numbers |-> page_numbers]
    ELSE LET sorted == ListSort(page_numbers)
         IN  [raised |-> FALSE,
              value |-> ClosestLoop(sorted, 1, sorted[1], previous_page).returned,
              page_numbers |-> sorted]

\* Outcome of a call: raised (ValueError) or the returned page, and the
\* argument list as the call leaves it (list.sort() sorts it in place).
find_closest_or_greater(page_numbers, previous_page) ==
    IF Len(page_numbers) < 1
    THEN [raised |-> TRUE, value |-> None, page_numbers |-> page_numbers]
    ELSE IF Len(page_numbers) = 1
    THEN [raised |-> FALSE, value |-> page_numbers[1], page_numbers |-> page_numbers]
    ELSE LET sorted == ListSort(page_numbers)
         IN  [raised |-> FALSE,
              value |-> ClosestLoop(sorted, 1, sorted[1], previous_page).returned,
              page_numbers |-> sorted]

-----------------------------------------------------------------------------
(* constants.py: tuple positions of a row (0-based, as in the source).     *)

DOCUMENT == 0
SECTION == 1
SUBSECTION == 2
PAGE_NUMBER_START == 3
TRUE_PAGE_NUMBER_START == 4
TRUE_PAGE_NUMBER_END == 5
SUBSECTION_TEXT == 6

\* row[i] of a Python tuple
Field(row, i) == row[i + 1]

-----------------------------------------------------------------------------
(* JSON values of the DeclaredContentsMap. A key is always a string; a     *)
(* value is whatever the response held: a string or, here, a number.       *)

JStr(s) == [type |-> "str", v |-> s]
JInt(n) == [type |-> "int", v |-> n]
IsStr(x) == x.type = "str"

\* `x in d` for a JSON value x and a dict d with string keys
InDict(x, d) == IsStr(x) /\ x.v \in DOMAIN d

RECURSIVE Flatten(_)
\* the (section, subsection, page_number) triples in the order the nested
\* for loops of create_table (lines 132-134) visit them
Flatten(m) ==
    IF m = <<>> THEN <<>>
    ELSE LET section == Head(m)[1]
             subs == Head(m)[2]
         IN  [i \in 1..Len(subs) |-> <<section, subs[i][1], subs[i][2]>>] \o Flatten(Tail(m))

-----------------------------------------------------------------------------
(* processor.create_table                                                  *)

RECURSIVE CreateTableLoop_break(_, _, _, _, _)
\* create_table with `break` in place of `continue` on line 150
CreateTableLoop_break(entries, i, tbl, index, file_name) ==
    IF i > Len(entries) THEN [raised |-> FALSE, table |-> tbl, index |-> index]
    ELSE LET section == entries[i][1]
             subsection == entries[i][2]
             page_number == entries[i][3]
             previous_page == IF Len(tbl) > 0 THEN tbl[Len(tbl)][5] ELSE 0
             key == IF page_number.type = "str" /\ page_number.v \in DOMAIN index
                    THEN <<page_number.v>>
                    ELSE IF subsection \in DOMAIN index THEN <<subsection>>
                    ELSE <<>>
         IN  IF key = <<>> THEN [raised |-> FALSE, table |-> tbl, index |-> index]
             ELSE LET r == find_closest_or_greater(index[key[1]], previous_page)
                      index2 == [index EXCEPT ![key[1]] = r.page_numbers]
                  IN  IF r.raised THEN [raised |-> TRUE, table |-> <<>>, index |-> index2]
                      ELSE CreateTableLoop_break(
                               entries, i + 1,
                               Append(tbl, <<file_name, section, subsection,
                                             page_number, r.value>>),
                               index2, file_name)

RECURSIVE CreateTableLoop_title_first(_, _, _, _, _)
\* create_table with the two lookups of lines 135 and 142 in the other order
CreateTableLoop_title_first(entries, i, tbl, index, file_name) ==
    IF i > Len(entries) THEN [raised |-> FALSE, table |-> tbl, index |-> index]
    ELSE LET section == entries[i][1]
             subsection == entries[i][2]
             page_number == entries[i][3]
             previous_page == IF Len(tbl) > 0 THEN tbl[Len(tbl)][5] ELSE 0
             key == IF subsection \in DOMAIN index THEN <<subsection>>
                    ELSE IF page_number.type = "str" /\ page_number.v \in DOMAIN index
                    THEN <<page_number.v>>
                    ELSE <<>>
         IN  IF key = <<>>
             THEN CreateTableLoop_title_first(entries, i + 1, tbl, index, file_name)
             ELSE LET r == find_closest_or_greater(index[key[1]], previous_page)
                      index2 == [index EXCEPT ![key[1]] = r.page_numbers]
                  IN  IF r.raised THEN [raised |-> TRUE, table |-> <<>>, index |-> index2]
                      ELSE CreateTableLoop_title_first(
                               entries, i + 1,
                               Append(tbl, <<file_name, section, subsection,
                                             page_number, r.value>>),
                               index2, file_name)

RECURSIVE CreateTableLoop(_, _, _, _, _)
\* the loop body of lines 134-153 from entry i on; tbl is the local `table`,
\* index the dict object passed in (its lists are sorted in place by the
\* resolution calls)
CreateTableLoop(entries, i, tbl, index, file_name) ==
    IF i > Len(entries) THEN [raised |-> FALSE, table |-> tbl, index |-> index]
    ELSE LET section == entries[i][1]
             subsection == entries[i][2]
             page_number == entries[i][3]
             previous_page == IF Len(tbl) > 0
                              THEN Field(tbl[Len(tbl)], TRUE_PAGE_NUMBER_START) ELSE 0
             key == IF InDict(page_number, index) THEN <<page_number.v>>
                    ELSE IF subsection \in DOMAIN index THEN <<subsection>>
                    ELSE <<>>
         IN  IF key = <<>> THEN CreateTableLoop(entries, i + 1, tbl, index, file_name)
             ELSE LET r == find_closest_or_greater(index[key[1]], previous_page)
                      index2 == [index EXCEPT ![key[1]] = r.page_numbers]
                  IN  IF r.raised THEN [raised |-> TRUE, table |-> <<>>, index |-> index2]
                      ELSE CreateTableLoop(
                               entries, i + 1,
                               Append(tbl, <<file_name, section, subsection,
                                             page_number, r.value>>),
                               index2, file_name)

create_table(map, index, file_name) == CreateTableLoop(Flatten(map), 1, <<>>, index, file_name)

-----------------------------------------------------------------------------
(* processor.add_true_end_page                                             *)

\* add_true_end_page with document_length in place of document_length - 1
add_true_end_page_length(tbl, document_length) ==
    [index \in 1..Len(tbl) |->
        Append(tbl[index],
               IF index = Len(tbl) THEN document_length ELSE tbl[index + 1][5])]

\* Row index of the loop reads row index+1, which the loop has not yet
\* extended, so every read sees a five-field row.
add_true_end_page(tbl, document_length) ==
    [index \in 1..Len(tbl) |->
        Append(tbl[index],
               IF index = Len(tbl) THEN document_length - 1
               ELSE Field(tbl[index + 1], TRUE_PAGE_NUMBER_START))]

-----------------------------------------------------------------------------
(* Python str built-ins used by the source.                                *)

Whitespace == {" ", "\n", "\t"}

RECURSIVE LStrip(_)
LStrip(s) == IF s # <<>> /\ Head(s) \in Whitespace THEN LStrip(Tail(s)) ELSE s

RECURSIVE RStrip(_)
RStrip(s) ==
    IF s # <<>> /\ s[Len(s)] \in Whitespace THEN RStrip(SubSeq(s, 1, Len(s) - 1)) ELSE s

\* str.strip()
Strip(s) == RStrip(LStrip(s))

\* s.startswith(sub, i) with a 0-based offset i
StartsAt(s, sub, i) ==
    /\ i + Len(sub) <= Len(s)
    /\ \A k \in 1..Len(sub) : s[i + k] = sub[k]

\* str.find(sub): the lowest 0-based offset of sub in s, or -1
Find(s, sub) ==
    LET hits == {i \in 0..Len(s) : StartsAt(s, sub, i)}
    IN  IF hits = {} THEN -1 ELSE CHOOSE i \in hits : \A j \in hits : i <= j

\* s[start:end] for 0 <= start and 0 <= end (empty when end <= start)
Slice(s, start, end) ==
    LET hi == IF end > Len(s) THEN Len(s) ELSE end
    IN  IF start >= hi THEN <<>> ELSE SubSeq(s, start + 1, hi)

RECURSIVE Replace_first(_, _)
\* str.replace(old, "", 1): only the first occurrence is deleted
Replace_first(s, old) ==
    IF Len(s) < Len(old) THEN s
    ELSE IF StartsAt(s, old, 0) THEN SubSeq(s, Len(old) + 1, Len(s))
    ELSE <<Head(s)>> \o Replace_first(Tail(s), old)

RECURSIVE Replace(_, _)
\* str.replace(old, ""), old non-empty: one left-to-right pass that deletes
\* each occurrence it meets and resumes after it
Replace(s, old) ==
    IF Len(s) < Len(old) THEN s
    ELSE IF StartsAt(s, old, 0) THEN Replace(SubSeq(s, Len(old) + 1, Len(s)), old)
    ELSE <<Head(s)>> \o Replace(Tail(s), old)

RECURSIVE Join(_)
\* "".join(list of strings)
Join(parts) == IF parts = <<>> THEN <<>> ELSE Head(parts) \o Join(Tail(parts))

UpperCase == <<"A", "B", "C", "D", "E", "F", "G", "H", "I", "J", "K", "L", "M",
               "N", "O", "P", "Q", "R", "S", "T", "U", "V", "W", "X", "Y", "Z">>
LowerCase == <<"a", "b", "c", "d", "e", "f", "g", "h", "i", "j", "k", "l", "m",
               "n", "o", "p", "q", "r", "s", "t", "u", "v", "w", "x", "y", "z">>

LowerChar(c) ==
    IF \E k \in DOMAIN UpperCase : UpperCase[k] = c
    THEN LowerCase[CHOOSE k \in DOMAIN UpperCase : UpperCase[k] = c]
    ELSE c

\* str.lower()
Lower(s) == [k \in DOMAIN s |-> LowerChar(s[k])]

\* code-point order of the characters that label keys are made of
Ord(c) == CHOOSE k \in DOMAIN LowerCase : LowerCase[k] = c

RECURSIVE StrLess(_, _)
\* s < t for two Python strings of lower-case letters
StrLess(s, t) ==
    IF t = <<>> THEN FALSE
    ELSE IF s = <<>> THEN TRUE
    ELSE IF Head(s) = Head(t) THEN StrLess(Tail(s), Tail(t))
    ELSE Ord(Head(s)) < Ord(Head(t))

-----------------------------------------------------------------------------
(* constants.py                                                            *)

TABLE_OF_CONTENTS ==
    <<"T", "A", "B", "L", "E", " ", "O", "F", " ", "C", "O", "N", "T", "E", "N", "T", "S">>
PYMUPDF_PAGE == "page"
PYMUPDF_FROM == "from"

Termination == <<"T", "e", "r", "m", "i", "n", "a", "t", "i", "o", "n">>
Indemnification ==
    <<"I", "n", "d", "e", "m", "n", "i", "f", "i", "c", "a", "t", "i", "o", "n">>
Confidentiality ==
    <<"C", "o", "n", "f", "i", "d", "e", "n", "t", "i", "a", "l", "i", "t", "y">>
Unknown == <<"U", "n", "k", "n", "o", "w", "n">>

\* the members of the enum, in definition order
SectionLabel == <<Termination, Indemnification, Confidentiality, Unknown>>

-----------------------------------------------------------------------------
(* processor.get_filtered_pages_with_links, get_text_true_page_mapping     *)
(* A page is [links |-> list of link dicts, text |-> the page's text]; a   *)
(* link dict is a record whose "from" entry, when present, is the text     *)
(* page.get_textbox returns for its rectangle.                             *)

LINKS_PER_PAGE_THRESHOLD == 5

\* the filter with >= in place of >
get_filtered_pages_with_links_ge(doc, links_per_page_threshold) ==
    SelectSeq(doc, LAMBDA page : Len(page.links) >= links_per_page_threshold)

get_filtered_pages_with_links(doc, links_per_page_threshold) ==
    SelectSeq(doc, LAMBDA page : Len(page.links) > links_per_page_threshold)

\* text_true_page_map[text].append(page) on a defaultdict(list)
DictAppend(d, text, page) ==
    IF text \in DOMAIN d THEN [d EXCEPT ![text] = Append(@, page)]
    ELSE [t \in DOMAIN d \cup {text} |-> IF t = text THEN <<page>> ELSE d[t]]

RECURSIVE LinkLoop(_, _, _)
\* the inner for loop of lines 44-48 from link i of one page on
LinkLoop(links, i, d) ==
    IF i > Len(links) THEN d
    ELSE LET link == links[i]
         IN  IF PYMUPDF_FROM \notin DOMAIN link \/ PYMUPDF_PAGE \notin DOMAIN link
             THEN LinkLoop(links, i + 1, d)
             ELSE LinkLoop(links, i + 1,
                           DictAppend(d, Strip(link[PYMUPDF_FROM]), link[PYMUPDF_PAGE]))

RECURSIVE PageLoop(_, _, _)
PageLoop(pages, p, d) ==
    IF p > Len(pages) THEN d ELSE PageLoop(pages, p + 1, LinkLoop(pages[p].links, 1, d))

get_text_true_page_mapping(pages) == PageLoop(pages, 1, <<>>)

get_text_from_pages(pages) == Join([p \in DOMAIN pages |-> pages[p].text])

\* pages start_page..end_page (0-based, inclusive); range() is empty when
\* end_page < start_page
get_text_from_range_of_pages(doc, start_page, end_page) ==
    IF end_page < start_page THEN <<>>
    ELSE Join([k \in 1..(end_page - start_page + 1) |-> doc[start_page + k].text])

-----------------------------------------------------------------------------
(* processor.add_subsection_text                                           *)

\* add_subsection_text with the next title searched from start_index on
BodySlice_from_start(tbl, index, doc) ==
    LET row == tbl[index]
        text_for_pages == get_text_from_range_of_pages(doc, row[5], row[6])
        found == Find(text_for_pages, row[3])
        start_index == IF found = -1 THEN 0 ELSE found
        rest == Slice(text_for_pages, start_index, Len(text_for_pages))
    IN  IF index = Len(tbl) THEN rest
        ELSE LET next == Find(rest, tbl[index + 1][3])
             IN  IF next = -1 THEN rest ELSE Slice(rest, 0, next)

\* text_for_pages[start_index:end_index] of lines 216-232 for row `index`,
\* before the heading is removed
BodySlice(tbl, index, doc) ==
    LET row == tbl[index]
        text_for_pages == get_text_from_range_of_pages(
                              doc, Field(row, TRUE_PAGE_NUMBER_START),
                              Field(row, TRUE_PAGE_NUMBER_END))
        found == Find(text_for_pages, Field(row, SUBSECTION))
        start_index == IF found = -1 THEN 0 ELSE found
    IN  IF index = Len(tbl)
        THEN Slice(text_for_pages, start_index, Len(text_for_pages))
        ELSE LET next == Find(text_for_pages, Field(tbl[index + 1], SUBSECTION))
                 end_index == IF next = -1 THEN Len(text_for_pages) ELSE next
             IN  Slice(text_for_pages, start_index, end_index)

SubsectionTextOf(tbl, index, doc) == Replace(BodySlice(tbl, index, doc), TABLE_OF_CONTENTS)

\* Row index reads only fields 2, 4 and 5 of rows index and index+1, which
\* the loop never changes, so the rows can be extended independently.
add_subsection_text(tbl, doc) ==
    [index \in 1..Len(tbl) |-> Append(tbl[index], SubsectionTextOf(tbl, index, doc))]

-----------------------------------------------------------------------------
(* difflib, as openai_utils.map_output_to_label uses it: SequenceMatcher   *)
(* without a junk function (strings here are far below the 200 characters  *)
(* at which autojunk starts), ratio() = 2*M/T over the matching blocks.    *)

RECURSIVE MatchLen(_, _, _, _, _, _)
\* length of the common run of a[i:ahi] and b[j:bhi] (0-based offsets)
MatchLen(a, b, i, j, ahi, bhi) ==
    IF i < ahi /\ j < bhi /\ a[i + 1] = b[j + 1]
    THEN 1 + MatchLen(a, b, i + 1, j + 1, ahi, bhi)
    ELSE 0

\* The runs of a set R of <<i, j, size>> triples that find_longest_match
\* prefers: the longest, of those the one starting earliest in a, and of
\* those the one starting earliest in b.
LongestRuns(R) == {t \in R : \A u \in R : t[3] >= u[3]}
EarliestInA(R) == {t \in R : \A u \in R : t[1] <= u[1]}
EarliestInB(R) == {t \in R : \A u \in R : t[2] <= u[2]}

\* SequenceMatcher.find_longest_match over a[alo:ahi] and b[blo:bhi]; each
\* stage is bound by a set constructor so that it is computed once
find_longest_match(a, b, alo, ahi, blo, bhi) ==
    IF alo >= ahi \/ blo >= bhi THEN <<alo, blo, 0>>
    ELSE Only({Only({Only({Only(EarliestInB(inA)) : inA \in {EarliestInA(longest)}})
                        : longest \in {LongestRuns(runs)}})
                  : runs \in {{<<i, j, MatchLen(a, b, i, j, ahi, bhi)>> :
                                  i \in alo..(ahi - 1), j \in blo..(bhi - 1)}}})

RECURSIVE MatchedChars(_, _, _, _, _, _)
\* total size of SequenceMatcher.get_matching_blocks over a[alo:ahi], b[blo:bhi]:
\* the longest block, then the blocks to its left and to its right
MatchedChars(a, b, alo, ahi, blo, bhi) ==
    Only({IF m[3] = 0 THEN 0
          ELSE m[3] + MatchedChars(a, b, alo, m[1], blo, m[2])
                    + MatchedChars(a, b, m[1] + m[3], ahi, m[2] + m[3], bhi)
             : m \in {find_longest_match(a, b, alo, ahi, blo, bhi)}})

\* get_close_matches' default cutoff, 0.6, as a fraction
CUTOFF_NUM == 6
CUTOFF_DEN == 10

\* get_close_matches called with cutoff=0.0
RatioAtLeastCutoff_zero(M, T) == TRUE

\* 2 * M * CUTOFF_DEN >= CUTOFF_NUM * T is ratio() = 2.0*M/T >= 0.6 in exact
\* arithmetic (the quick ratios tested first are upper bounds of ratio());
\* ratio() is 1.0 when both strings are empty
RatioAtLeastCutoff(M, T) == IF T = 0 THEN TRUE ELSE 2 * M * CUTOFF_DEN >= CUTOFF_NUM * T

\* 2.0*M1/T1 > 2.0*M2/T2, cross-multiplied (T = 0 is the ratio 1.0)
RatioGreater(M1, T1, M2, T2) ==
    IF T1 = 0 THEN T2 # 0 /\ 2 * M2 < T2
    ELSE IF T2 = 0 THEN FALSE
    ELSE M1 * T2 > M2 * T1

\* Of the possibilities k in `result`, with M[k] matched characters out of
\* T[k], the one heapq.nlargest(1, ...) keeps: the greatest (score, x) tuple,
\* i.e. the best score and, of equal scores, the greater string.
Largest(possibilities, result, M, T) ==
    CHOOSE k \in result : \A l \in result :
        \/ RatioGreater(M[k], T[k], M[l], T[l])
        \/ /\ ~RatioGreater(M[l], T[l], M[k], T[k])
           /\ ~StrLess(possibilities[k], possibilities[l])

\* get_close_matches(word, possibilities, n=1): the possibilities scoring at
\* least the cutoff, cut to the single largest
get_close_matches(word, possibilities) ==
    LET T == [k \in DOMAIN possibilities |-> Len(possibilities[k]) + Len(word)]
    IN  Only({Only({IF result = {} THEN <<>>
                    ELSE <<possibilities[Largest(possibilities, result, M, T)]>>
                       : result \in {{k \in DOMAIN possibilities :
                                         RatioAtLeastCutoff(M[k], T[k])}}})
                 : M \in {[k \in DOMAIN possibilities |->
                             MatchedChars(possibilities[k], word,
                                          0, Len(possibilities[k]), 0, Len(word))]}})

-----------------------------------------------------------------------------
(* openai_utils.map_output_to_label                                        *)

map_output_to_label(output) ==
    LET clean_output == Lower(Strip(output))
        clean_labels == [k \in DOMAIN SectionLabel |-> Lower(Strip(SectionLabel[k]))]
    IN  Only({IF matches = <<>> THEN Unknown
              ELSE SectionLabel[CHOOSE k \in DOMAIN clean_labels :
                                   clean_labels[k] = matches[1]]
                 : matches \in {get_close_matches(clean_output, clean_labels)}})

-----------------------------------------------------------------------------
(* openai_utils.prompt_section_subsection_page_mapping and                 *)
(* prompt_subsection_label, given what the prompt service did with the     *)
(* call: it raised, or it returned a string. A returned string is          *)
(* [raised |-> FALSE, output |-> ...]; for the mapper the output is        *)
(* [decodes |-> whether json.loads accepts it, value |-> what it decodes   *)
(* to], for the classifier it is the string itself.                        *)

Raises == [raised |-> TRUE]
Returns(x) == [raised |-> FALSE, output |-> x]
Undecodable == [decodes |-> FALSE, value |-> <<>>]
Json(m) == [decodes |-> TRUE, value |-> m]

\* the mapper without the try/except of lines 40-43: JSONDecodeError leaves it
prompt_section_subsection_page_mapping_uncaught(outcome) ==
    IF outcome.raised \/ ~outcome.output.decodes THEN [raised |-> TRUE, value |-> <<>>]
    ELSE [raised |-> FALSE, value |-> outcome.output.value]

\* lines 35-44: only json.loads is inside the try
prompt_section_subsection_page_mapping(outcome) ==
    IF outcome.raised THEN [raised |-> TRUE, value |-> <<>>]
    ELSE IF ~outcome.output.decodes THEN [raised |-> FALSE, value |-> <<>>]
    ELSE [raised |-> FALSE, value |-> outcome.output.value]

\* lines 63-69
prompt_subsection_label(outcome) ==
    IF outcome.raised THEN [raised |-> TRUE, value |-> <<>>]
    ELSE [raised |-> FALSE, value |-> map_output_to_label(outcome.output)]

-----------------------------------------------------------------------------
(* processor.add_subsection_label                                          *)

RECURSIVE LabelLoop(_, _, _)
\* the loop of lines 264-267 from row i on; outcomes[i] is what the prompt
\* service does with the call for row i. An exception leaves the loop with
\* the rows before i labelled.
LabelLoop(tbl, i, outcomes) ==
    IF i > Len(tbl) THEN [raised |-> FALSE, table |-> tbl, calls |-> i - 1]
    ELSE Only({IF label_text.raised THEN [raised |-> TRUE, table |-> tbl, calls |-> i]
               ELSE LabelLoop([tbl EXCEPT ![i] = Append(@, label_text.value)],
                              i + 1, outcomes)
                  : label_text \in {prompt_subsection_label(outcomes[i])}})

add_subsection_label(tbl, outcomes) == LabelLoop(tbl, 1, outcomes)

-----------------------------------------------------------------------------
(* Strings the inputs are made of.                                         *)

FILE_NAME == "doc.pdf"

Label1 == <<"1">>
TitleA == <<"A", "a">>
TitleB == <<"B", "b">>
SectionI == <<"I">>
SectionII == <<"I", "I">>

BlankPage == [links |-> <<>>, text |-> <<>>]
BlankDocument(n) == [p \in 1..n |-> BlankPage]

-----------------------------------------------------------------------------
(* generate_summary, lines 383-388: the reconciliation passes.             *)

CreateTable ==
    /\ pc = "mapped"
    /\ LET r == create_table(section_subsection_page_map, text_true_page_map, FILE_NAME)
       IN  /\ text_true_page_map' = r.index
           /\ IF r.raised
              THEN /\ pc' = "failed"
                   /\ error' = "ValueError"
                   /\ UNCHANGED table
              ELSE /\ pc' = "matched"
                   /\ table' = r.table
                   /\ UNCHANGED error
    /\ UNCHANGED pool_vars
    /\ UNCHANGED <<document, built_map, section_subsection_page_map, responses,
                   csv_file, args, ret>>

AddTrueEndPage ==
    /\ pc = "matched"
    /\ table' = add_true_end_page(table, Len(document))
    /\ pc' = "ended"
    /\ UNCHANGED pool_vars
    /\ UNCHANGED <<document, text_true_page_map, built_map, section_subsection_page_map,
                   responses, csv_file, error, args, ret>>

-----------------------------------------------------------------------------
(* generate_summary, lines 389-396: text, labels, output.                  *)

AddSubsectionText ==
    /\ pc = "ended"
    /\ table' = add_subsection_text(table, document)
    /\ pc' = "texted"
    /\ UNCHANGED pool_vars
    /\ UNCHANGED <<document, text_true_page_map, built_map, section_subsection_page_map,
                   responses, csv_file, error, args, ret>>

\* one prompt-service call per row, each answered from Outcomes
AddSubsectionLabel(Outcomes) ==
    /\ pc = "texted"
    /\ \E outcomes \in [1..Len(table) -> Outcomes] :
          \E r \in {add_subsection_label(table, outcomes)} :
              /\ table' = r.table
              /\ responses' = responses \o SubSeq(outcomes, 1, r.calls)
              /\ pc' = IF r.raised THEN "failed" ELSE "labelled"
              /\ error' = IF r.raised THEN "PromptServiceError" ELSE error
    /\ UNCHANGED pool_vars
    /\ UNCHANGED <<document, text_true_page_map, built_map, section_subsection_page_map,
                   csv_file, args, ret>>

\* pd.DataFrame(data=table, columns=COLUMNS).to_csv(...): one line per row
WriteCsv ==
    /\ pc = "labelled"
    /\ csv_file' = table
    /\ pc' = "done"
    /\ UNCHANGED pool_vars
    /\ UNCHANGED <<document, text_true_page_map, built_map, section_subsection_page_map,
                   table, responses, error, args, ret>>

-----------------------------------------------------------------------------
(* generate_summary, lines 376-382: the index and the declared contents.   *)

BuildIndex ==
    /\ pc = "opened"
    /\ LET filtered_pages == get_filtered_pages_with_links(document, LINKS_PER_PAGE_THRESHOLD)
       IN  /\ text_true_page_map' = get_text_true_page_mapping(filtered_pages)
           /\ built_map' = text_true_page_map'
    /\ pc' = "indexed"
    /\ UNCHANGED pool_vars
    /\ UNCHANGED <<document, section_subsection_page_map, table, responses, csv_file,
                   error, args, ret>>

\* the mapper's one prompt-service call, answered from Outcomes
PromptMapping(Outcomes) ==
    /\ pc = "indexed"
    /\ \E outcome \in Outcomes :
          LET r == prompt_section_subsection_page_mapping(outcome)
          IN  /\ responses' = Append(responses, outcome)
              /\ section_subsection_page_map' = r.value
              /\ pc' = IF r.raised THEN "failed" ELSE "mapped"
              /\ error' = IF r.raised THEN "PromptServiceError" ELSE error
    /\ UNCHANGED pool_vars
    /\ UNCHANGED <<document, text_true_page_map, built_map, table, csv_file, args, ret>>

-----------------------------------------------------------------------------
(* Reconciliation of every small DeclaredContentsMap against every small   *)
(* LinkPageIndex.                                                          *)

\* candidate lists as get_text_true_page_mapping can leave them: never empty;
\* here the targets of one anchor text are distinct pages, in any order
CandidateLists ==
    {s \in SeqsUpTo(0..TablePage, TableCands) :
        s # <<>> /\ \A i, j \in DOMAIN s : i # j => s[i] # s[j]}

IndexKeys == {Label1, TitleA}

Indexes == UNION {[K -> CandidateLists] : K \in SUBSET IndexKeys}

Titles == {TitleA, TitleB}

\* a declared page label: the string "1", or the JSON number 5
SubsectionEntries == {<<t, l>> : t \in Titles, l \in {JStr(Label1), JInt(5)}}

\* the inner dicts: keys are distinct
SubsectionDicts ==
    {d \in SeqsUpTo(SubsectionEntries, Cardinality(Titles)) :
        \A i, j \in DOMAIN d : i # j => d[i][1] # d[j][1]}

Maps ==
    {<<>>}
    \cup {<<<<SectionI, d>>>> : d \in SubsectionDicts}
    \cup {<<<<SectionI, d>>, <<SectionII, e>>>> : d \in SubsectionDicts, e \in SubsectionDicts}

InitTable ==
    /\ PoolIdle
    /\ pc = "mapped"
    /\ text_true_page_map \in Indexes
    /\ built_map = text_true_page_map
    /\ section_subsection_page_map \in Maps
    /\ document = BlankDocument(TablePage + 2)
    /\ table = <<>>
    /\ responses = <<>>
    /\ csv_file = NotWritten
    /\ error = NoError
    /\ args = Idle
    /\ ret = None

NextTable == CreateTable \/ AddTrueEndPage

SpecTable == InitTable /\ [][NextTable]_vars

-----------------------------------------------------------------------------
(* Link dicts and pages. PyMuPDF gives every link a "kind"; a link inside  *)
(* the document (kind 1) has a target "page", a link to a URI (kind 2)     *)
(* has none.                                                               *)

LinkKinds ==
    << [kind |-> 1, from |-> <<" ", "1">>, page |-> 2],
       [kind |-> 1, from |-> <<"A", "a">>, page |-> 1],
       [kind |-> 2, from |-> <<"x">>],
       [kind |-> 1, from |-> <<"1", "\n">>, page |-> 0],
       [kind |-> 1, page |-> 1],
       [kind |-> 2] >>

\* n links, taken in turn from LinkKinds starting after the first `offset`
LinksFrom(offset, n) ==
    [i \in 1..n |-> LinkKinds[((offset + i - 1) % Len(LinkKinds)) + 1]]

LinkLists == {LinksFrom(offset, n) : offset \in 0..(Len(LinkKinds) - 1), n \in 0..MaxLinks}

-----------------------------------------------------------------------------
(* The index builder on every small document.                              *)

InitIndex ==
    /\ PoolIdle
    /\ pc = "opened"
    /\ document \in SeqsUpTo({[links |-> l, text |-> <<>>] : l \in LinkLists}, IndexPages)
    /\ text_true_page_map = <<>>
    /\ built_map = <<>>
    /\ section_subsection_page_map = <<>>
    /\ table = <<>>
    /\ responses = <<>>
    /\ csv_file = NotWritten
    /\ error = NoError
    /\ args = Idle
    /\ ret = None

SpecIndex == InitIndex /\ [][BuildIndex]_vars

-----------------------------------------------------------------------------
(* Text extraction on two-page documents whose text is made of titles and  *)
(* of the two halves of the table-of-contents heading.                     *)

TableOf == SubSeq(TABLE_OF_CONTENTS, 1, 9)
Contents == SubSeq(TABLE_OF_CONTENTS, 10, 17)
Fragments == {TitleA, TitleB, TableOf, Contents}

\* the fragments f split over a first and a second page after the k-th
SplitDocument(f, k) ==
    <<[links |-> <<>>, text |-> Join(SubSeq(f, 1, k))],
      [links |-> <<>>, text |-> Join(SubSeq(f, k + 1, Len(f)))]>>

TextDocuments ==
    UNION {{SplitDocument(f, k) : k \in 0..Len(f)} : f \in SeqsUpTo(Fragments, MaxFragments)}

\* tables as add_true_end_page leaves them for a two-page document: one or
\* two rows, every start page a page of the document
EndedTables ==
    {<<<<FILE_NAME, SectionI, t, JStr(Label1), s, 1>>>> : t \in Titles, s \in 0..1}
    \cup {<<<<FILE_NAME, SectionI, t1, JStr(Label1), s1, s2>>,
            <<FILE_NAME, SectionII, t2, JStr(Label1), s2, 1>>>> :
             t1 \in Titles, t2 \in Titles, s1 \in 0..1, s2 \in 0..1}

InitText ==
    /\ PoolIdle
    /\ pc = "ended"
    /\ document \in TextDocuments
    /\ table \in EndedTables
    /\ text_true_page_map = <<>>
    /\ built_map = <<>>
    /\ section_subsection_page_map = <<>>
    /\ responses = <<>>
    /\ csv_file = NotWritten
    /\ error = NoError
    /\ args = Idle
    /\ ret = None

SpecText == InitText /\ [][AddSubsectionText]_vars

-----------------------------------------------------------------------------
(* Labelling: the classifier's answers.                                    *)

Prefixes(s) == {SubSeq(s, 1, n) : n \in 0..(IF Len(s) < MaxPrefix THEN Len(s) ELSE MaxPrefix)}

\* a label as the model might write it: cut short by max_tokens, in upper
\* case, or wrapped in white space; or another word altogether
ClassifierStrings ==
    LET cut == UNION {Prefixes(SectionLabel[k]) : k \in DOMAIN SectionLabel}
    IN  cut
        \cup {SectionLabel[k] : k \in DOMAIN SectionLabel}
        \cup {<<" ">> \o Lower(c) \o <<"\n">> : c \in cut}
        \cup {<<"O", "t", "h", "e", "r">>, <<"n", "a", "t", "i", "o", "n">>,
              <<"T", "E", "R", "M", "I", "N", "A", "T", "E">>,
              <<"c", "o", "n", "f", "i", "r", "m", "a", "t", "i", "o", "n">>,
              <<"i", "n", "d", "e", "m", "n", "i", "t", "y">>}

ClassifierOutcomes == {Raises} \cup {Returns(x) : x \in ClassifierStrings}

TextedTables ==
    {<<<<FILE_NAME, SectionI, t, JStr(Label1), 0, 1, x>>>> : t \in Titles, x \in {<<>>, TitleA}}

InitLabel ==
    /\ PoolIdle
    /\ pc = "texted"
    /\ table \in TextedTables
    /\ document = BlankDocument(2)
    /\ text_true_page_map = <<>>
    /\ built_map = <<>>
    /\ section_subsection_page_map = <<>>
    /\ responses = <<>>
    /\ csv_file = NotWritten
    /\ error = NoError
    /\ args = Idle
    /\ ret = None

NextLabel == AddSubsectionLabel(ClassifierOutcomes)

SpecLabel == InitLabel /\ [][NextLabel]_vars

-----------------------------------------------------------------------------
(* generate_summary on one document, start to end.                         *)

BodyText1 == TitleA \o <<"x">> \o TABLE_OF_CONTENTS \o TitleB
BodyText2 == <<"y">> \o TitleB

\* a contents page with links, followed by two pages of text
Documents ==
    {<<[links |-> l, text |-> TABLE_OF_CONTENTS \o TitleA \o Label1],
       [links |-> <<>>, text |-> BodyText1],
       [links |-> <<>>, text |-> BodyText2]>> :
        l \in {LinksFrom(offset, n) : offset \in 0..(Len(LinkKinds) - 1),
                                      n \in LINKS_PER_PAGE_THRESHOLD..MaxLinks}}

MapperOutcomes ==
    {Raises, Returns(Undecodable)}
    \cup {Returns(Json(m)) : m \in {n \in Maps : Len(Flatten(n)) <= 2}}

LabelOutcomes == {Raises, Returns(Termination), Returns(<<"O", "t", "h", "e", "r">>)}

Init ==
    /\ PoolIdle
    /\ pc = "opened"
    /\ document \in Documents
    /\ text_true_page_map = <<>>
    /\ built_map = <<>>
    /\ section_subsection_page_map = <<>>
    /\ table = <<>>
    /\ responses = <<>>
    /\ csv_file = NotWritten
    /\ error = NoError
    /\ args = Idle
    /\ ret = None

Next ==
    \/ BuildIndex
    \/ PromptMapping(MapperOutcomes)
    \/ CreateTable
    \/ AddTrueEndPage
    \/ AddSubsectionText
    \/ AddSubsectionLabel(LabelOutcomes)
    \/ WriteCsv

Spec == Init /\ [][Next]_vars

-----------------------------------------------------------------------------
(* Direct calls of find_closest_or_greater.                                *)

ResolveInputs ==
    {[page_numbers |-> s, previous_page |-> p] :
        s \in SeqsUpTo(0..MaxPage, MaxCands), p \in -1..(MaxPage + 1)}
    \cup {[page_numbers |-> <<2, 3, 5, 10>>, previous_page |-> 4],   \* docstring, line 77
          [page_numbers |-> <<1, 2, 3>>, previous_page |-> 6]}       \* docstring, line 79

InitResolve ==
    /\ PoolIdle
    /\ pc = "call"
    /\ args \in ResolveInputs
    /\ ret = None
    /\ document = <<>>
    /\ text_true_page_map = <<>>
    /\ built_map = <<>>
    /\ section_subsection_page_map = <<>>
    /\ table = <<>>
    /\ responses = <<>>
    /\ csv_file = NotWritten
    /\ error = NoError

CallResolve ==
    /\ pc = "call"
    /\ LET r == find_closest_or_greater(args.page_numbers, args.previous_page)
       IN  /\ ret' = r
           /\ error' = IF r.raised THEN "ValueError" ELSE NoError
    /\ pc' = "returned"
    /\ UNCHANGED pool_vars
    /\ UNCHANGED <<document, text_true_page_map, built_map, section_subsection_page_map,
                   table, responses, csv_file, args>>

SpecResolve == InitResolve /\ [][CallResolve]_vars

-----------------------------------------------------------------------------
(* Direct calls of create_table with an index written by hand, as in its   *)
(* docstring (lines 126-129): such an index may map a key to no page.      *)

AnyCandidateLists == CandidateLists \cup {<<>>}

AnyIndexes == UNION {[K -> AnyCandidateLists] : K \in SUBSET IndexKeys}

InitCreate ==
    /\ PoolIdle
    /\ pc = "create"
    /\ text_true_page_map \in AnyIndexes
    /\ built_map = text_true_page_map
    /\ section_subsection_page_map \in Maps
    /\ document = <<>>
    /\ table = <<>>
    /\ responses = <<>>
    /\ csv_file = NotWritten
    /\ error = NoError
    /\ args = Idle
    /\ ret = None

CallCreateTable ==
    /\ pc = "create"
    /\ LET r == create_table(section_subsection_page_map, text_true_page_map, FILE_NAME)
       IN  /\ text_true_page_map' = r.index
           /\ IF r.raised
              THEN /\ pc' = "refused"
                   /\ error' = "ValueError"
                   /\ UNCHANGED table
              ELSE /\ pc' = "created"
                   /\ table' = r.table
                   /\ UNCHANGED error
    /\ UNCHANGED pool_vars
    /\ UNCHANGED <<document, built_map, section_subsection_page_map, responses,
                   csv_file, args, ret>>

\* direct calls of the resolution rule and of create_table, and the pipeline
InitRefusal == InitResolve \/ InitCreate \/ Init

NextRefusal == CallResolve \/ CallCreateTable \/ Next

SpecRefusal == InitRefusal /\ [][NextRefusal]_vars

-----------------------------------------------------------------------------
(* io_utils.py: the directory scan and the output path of an input file.   *)
(* os.path is posixpath: the separator is "/", the extension mark is ".".  *)

\* str.rfind(sub): the highest 0-based offset of sub in s, or -1
RFind(s, sub) ==
    LET hits == {i \in 0..Len(s) : StartsAt(s, sub, i)}
    IN  IF hits = {} THEN -1 ELSE CHOOSE i \in hits : \A j \in hits : j <= i

\* str.endswith(suffix)
EndsWith(s, suffix) ==
    Len(suffix) <= Len(s) /\ StartsAt(s, suffix, Len(s) - Len(suffix))

\* os.path.join(a, b)
os_path_join(a, b) ==
    IF StartsAt(b, <<"/">>, 0) THEN b
    ELSE IF a = <<>> \/ EndsWith(a, <<"/">>) THEN a \o b
    ELSE a \o <<"/">> \o b

\* os.path.basename(p)
os_path_basename(p) == Slice(p, RFind(p, <<"/">>) + 1, Len(p))

\* os.path.splitext(p): <<root, ext>>; the dots that lead the last component
\* never start an extension
os_path_splitext(p) ==
    LET sepIndex == RFind(p, <<"/">>)
        dotIndex == RFind(p, <<".">>)
    IN  IF /\ dotIndex > sepIndex
           /\ \E k \in (sepIndex + 1)..(dotIndex - 1) : p[k + 1] # "."
        THEN <<Slice(p, 0, dotIndex), Slice(p, dotIndex, Len(p))>>
        ELSE <<p, <<>>>>

PDF_EXTENSION == <<".", "p", "d", "f">>
CSV_EXTENSION == <<".", "c", "s", "v">>

get_output_file_path(input_file_path, output_directory_path) ==
    LET filename == os_path_basename(input_file_path)
        name == os_path_splitext(filename)[1]
        output_filename == name \o CSV_EXTENSION
    IN  os_path_join(output_directory_path, output_filename)

\* listing is os.listdir's result, each entry with what os.path.isfile says
get_pdf_file_paths_from_directory(directory_path, listing) ==
    LET keep == [k \in DOMAIN listing |->
                    IF listing[k].is_file /\ EndsWith(Lower(listing[k].entry), PDF_EXTENSION)
                    THEN <<os_path_join(directory_path, listing[k].entry)>>
                    ELSE <<>>]
    IN  Join(keep)

-----------------------------------------------------------------------------
(* main.py: generate_summary_for_directory_parallel.  Every task of        *)
(* pool.map is one call of generate_summary in a pool process; what a      *)
(* task shares with the others is the output directory.                    *)

MaxEntries == 3     \* most entries in the input directory
Processes == 2      \* processes of the pool (the number of CPUs)

INPUT_DIRECTORY == <<"d", "a", "t", "a">>
OUTPUT_DIRECTORY == <<"c", "h", "u", "n", "k", "s">>

\* lines 80-86
ScanDirectory ==
    /\ pc = "scan"
    /\ args_list' =
          LET input_file_paths == get_pdf_file_paths_from_directory(INPUT_DIRECTORY, directory)
          IN  [k \in DOMAIN input_file_paths |->
                  <<input_file_paths[k],
                    get_output_file_path(input_file_paths[k], OUTPUT_DIRECTORY)>>]
    /\ worker' = [k \in DOMAIN args_list' |-> "queued"]
    /\ pc' = "pooled"
    /\ UNCHANGED <<directory, files>>
    /\ UNCHANGED <<document, text_true_page_map, built_map, section_subsection_page_map,
                   table, responses, csv_file, error, args, ret>>

\* a free pool process takes task i and enters generate_summary
StartTask(i) ==
    /\ pc = "pooled"
    /\ worker[i] = "queued"
    /\ Cardinality({k \in DOMAIN worker : worker[k] \in {"running", "writing"}}) < Processes
    /\ worker' = [worker EXCEPT ![i] = "running"]
    /\ UNCHANGED <<pc, directory, args_list, files>>
    /\ UNCHANGED <<document, text_true_page_map, built_map, section_subsection_page_map,
                   table, responses, csv_file, error, args, ret>>

\* generate_summary of task i raises before to_csv: nothing is written
TaskRaises(i) ==
    /\ pc = "pooled"
    /\ worker[i] = "running"
    /\ worker' = [worker EXCEPT ![i] = "raised"]
    /\ UNCHANGED <<pc, directory, args_list, files>>
    /\ UNCHANGED <<document, text_true_page_map, built_map, section_subsection_page_map,
                   table, responses, csv_file, error, args, ret>>

\* to_csv of task i opens its output path for writing
OpenOutput(i) ==
    /\ pc = "pooled"
    /\ worker[i] = "running"
    /\ worker' = [worker EXCEPT ![i] = "writing"]
    /\ files' = files \cup {<<args_list[i][2], i>>}
    /\ UNCHANGED <<pc, directory, args_list>>
    /\ UNCHANGED <<document, text_true_page_map, built_map, section_subsection_page_map,
                   table, responses, csv_file, error, args, ret>>

\* to_csv of task i returns and generate_summary with it
CloseOutput(i) ==
    /\ pc = "pooled"
    /\ worker[i] = "writing"
    /\ worker' = [worker EXCEPT ![i] = "done"]
    /\ UNCHANGED <<pc, directory, args_list, files>>
    /\ UNCHANGED <<document, text_true_page_map, built_map, section_subsection_page_map,
                   table, responses, csv_file, error, args, ret>>

\* pool.map returns (or re-raises) once every task has ended
PoolReturns ==
    /\ pc = "pooled"
    /\ \A k \in DOMAIN worker : worker[k] \in {"done", "raised"}
    /\ pc' = "finished"
    /\ error' = IF \E k \in DOMAIN worker : worker[k] = "raised" THEN "TaskError" ELSE error
    /\ UNCHANGED <<directory, args_list, worker, files>>
    /\ UNCHANGED <<document, text_true_page_map, built_map, section_subsection_page_map,
                   table, responses, csv_file, args, ret>>

\* Names a case-sensitive directory can hold side by side.
EntryA == <<"a">> \o PDF_EXTENSION
EntryAUpper == <<"a", ".", "P", "D", "F">>
EntryB == <<"b">> \o PDF_EXTENSION
EntryText == <<"a", ".", "t", "x", "t">>
EntryDot == PDF_EXTENSION
EntryDirectory == <<"c">> \o PDF_EXTENSION

DirectoryEntries ==
    {[entry |-> n, is_file |-> TRUE] : n \in {EntryA, EntryAUpper, EntryB, EntryText, EntryDot}}
    \cup {[entry |-> EntryDirectory, is_file |-> FALSE]}

\* os.listdir: the names of a directory are distinct, in any order
Listings ==
    {l \in SeqsUpTo(DirectoryEntries, MaxEntries) :
        \A j, k \in DOMAIN l : j # k => l[j].entry # l[k].entry}

InitDirectory ==
    /\ pc = "scan"
    /\ directory \in Listings
    /\ args_list = <<>>
    /\ worker = <<>>
    /\ files = {}
    /\ args = Idle
    /\ ret = None
    /\ document = <<>>
    /\ text_true_page_map = <<>>
    /\ built_map = <<>>
    /\ section_subsection_page_map = <<>>
    /\ table = <<>>
    /\ responses = <<>>
    /\ csv_file = NotWritten
    /\ error = NoError

NextDirectory ==
    \/ ScanDirectory
    \/ \E i \in DOMAIN worker : StartTask(i)
    \/ \E i \in DOMAIN worker : TaskRaises(i)
    \/ \E i \in DOMAIN worker : OpenOutput(i)
    \/ \E i \in DOMAIN worker : CloseOutput(i)
    \/ PoolReturns

SpecDirectory == InitDirectory /\ [][NextDirectory]_vars

-----------------------------------------------------------------------------
(* Properties.                                                             *)

Range(s) == {s[i] : i \in DOMAIN s}

\* C1: for a non-empty candidate list and any previous start,
\* find_closest_or_greater returns the smallest candidate >= previous, or,
\* when there is none, the candidate closest to previous (the largest one);
\* the result is always one of the candidates. The two docstring examples
\* give 5 and 3.
C1_ClosestOrGreater ==
    (pc = "returned" /\ Len(args.page_numbers) >= 1) =>
        LET C == Range(args.page_numbers)
            p == args.previous_page
        IN  /\ ~ret.raised
            /\ ret.value \in C
            /\ IF \E c \in C : c >= p
               THEN ret.value >= p /\ \A c \in C : c >= p => ret.value <= c
               ELSE /\ \A c \in C : Abs(c - p) >= Abs(ret.value - p)
                    /\ \A c \in C : c <= ret.value
            /\ (args.page_numbers = <<2, 3, 5, 10>> /\ p = 4) => ret.value = 5
            /\ (args.page_numbers = <<1, 2, 3>> /\ p = 6) => ret.value = 3

\* an unsorted list with candidates on both sides of previous has been resolved
C1_Witness ==
    /\ pc = "returned"
    /\ args.page_numbers = <<3, 0, 2>>
    /\ args.previous_page = 1
    /\ ret.value = 2

\* The entries of the DeclaredContentsMap that the index as built resolves,
\* in iteration order, and the candidate list of each: that of the declared
\* page label when it is a key, otherwise that of the subsection title.
Resolvable(e) == InDict(e[3], built_map) \/ e[2] \in DOMAIN built_map

ResolvableEntries == SelectSeq(Flatten(section_subsection_page_map), Resolvable)

CandidatesOf(e) == IF InDict(e[3], built_map) THEN built_map[e[3].v] ELSE built_map[e[2]]

AllPages == UNION {Range(built_map[k]) : k \in DOMAIN built_map}

\* one candidate per resolvable entry can be chosen non-decreasing
Achievable ==
    LET n == Len(ResolvableEntries)
    IN  \E choice \in [1..n -> AllPages] :
            /\ \A i \in 1..n : choice[i] \in Range(CandidatesOf(ResolvableEntries[i]))
            /\ \A i \in 1..(n - 1) : choice[i] <= choice[i + 1]

\* C2: when one candidate per resolvable entry can be chosen so that the
\* pages are non-decreasing in emission order, the true start pages of the
\* table create_table returns are non-decreasing in emission order.
C2_MonotoneWhenAchievable ==
    (pc \in {"matched", "ended"} /\ Achievable) =>
        \A i \in 1..(Len(table) - 1) :
            Field(table[i], TRUE_PAGE_NUMBER_START) <= Field(table[i + 1], TRUE_PAGE_NUMBER_START)

\* three rows, the second resolved past a smaller candidate of its list
C2_Witness ==
    /\ pc = "matched"
    /\ Achievable
    /\ Len(table) = 3
    /\ Len(ResolvableEntries) = 3
    /\ Field(table[1], TRUE_PAGE_NUMBER_START) < Field(table[2], TRUE_PAGE_NUMBER_START)
    /\ \E c \in Range(CandidatesOf(ResolvableEntries[2])) :
           c < Field(table[1], TRUE_PAGE_NUMBER_START)

\* C3: add_true_end_page keeps the number, the order and the first five
\* fields of the rows, gives every row but the last the next row's true start
\* page as its true end page, and the last row document_length - 1.
C3_TrueEndPage ==
    [][pc = "matched" =>
        /\ Len(table') = Len(table)
        /\ \A i \in 1..Len(table) :
              /\ Len(table'[i]) = 6
              /\ SubSeq(table'[i], 1, 5) = table[i]
              /\ Field(table'[i], TRUE_PAGE_NUMBER_END) =
                    IF i = Len(table) THEN Len(document) - 1
                    ELSE Field(table[i + 1], TRUE_PAGE_NUMBER_START)]_vars

\* end pages were attached to a table of three rows with distinct starts
C3_Witness ==
    /\ pc = "ended"
    /\ Len(table) = 3
    /\ Field(table[1], TRUE_PAGE_NUMBER_END) = Field(table[2], TRUE_PAGE_NUMBER_START)
    /\ Field(table[1], TRUE_PAGE_NUMBER_START) # Field(table[2], TRUE_PAGE_NUMBER_START)
    /\ Field(table[3], TRUE_PAGE_NUMBER_END) = Len(document) - 1

\* C4: the table create_table returns holds exactly the (section,
\* subsection, declared label) triples of the DeclaredContentsMap whose
\* label or whose title is a key of the index, one row each, in the map's
\* iteration order.
C4_RowsAreResolvableEntries ==
    pc = "matched" =>
        /\ Len(table) = Len(ResolvableEntries)
        /\ \A i \in 1..Len(table) :
              /\ Field(table[i], DOCUMENT) = FILE_NAME
              /\ <<Field(table[i], SECTION), Field(table[i], SUBSECTION),
                   Field(table[i], PAGE_NUMBER_START)>> = ResolvableEntries[i]

\* two sections, an entry dropped between two entries kept
C4_Witness ==
    /\ pc = "matched"
    /\ Len(section_subsection_page_map) = 2
    /\ Len(Flatten(section_subsection_page_map)) = 3
    /\ ~Resolvable(Flatten(section_subsection_page_map)[2])
    /\ Len(table) = 2
    /\ Field(table[1], SECTION) # Field(table[2], SECTION)

\* C9: the LinkPageIndex is never changed after construction: every key
\* maps to the list, in encounter order, that it mapped to when built.
C9_IndexImmutable == text_true_page_map = built_map

\* the links, in page order and then link order, of the pages that carry
\* more than five links
LinksOfLinkPages ==
    Join([p \in DOMAIN document |->
             IF Len(document[p].links) > 5 THEN document[p].links ELSE <<>>])

HasBoth(link) == "from" \in DOMAIN link /\ "page" \in DOMAIN link

EmptyMapReturned ==
    /\ pc \notin {"opened", "indexed"}
    /\ ~responses[1].raised
    /\ section_subsection_page_map = <<>>

InsideHeading(s) ==
    {p \in DOMAIN s : \E i \in 0..Len(s) :
        StartsAt(s, TABLE_OF_CONTENTS, i) /\ i < p /\ p <= i + Len(TABLE_OF_CONTENTS)}

RECURSIVE Without(_, _, _)
\* s from position p on, less the positions in `drop`
Without(s, drop, p) ==
    IF p > Len(s) THEN <<>>
    ELSE (IF p \in drop THEN <<>> ELSE <<s[p]>>) \o Without(s, drop, p + 1)

HasHeading(s) == \E i \in 0..Len(s) : StartsAt(s, TABLE_OF_CONTENTS, i)

\* C6 as claimed: no subsection text attached by add_subsection_text
\* contains the heading "TABLE OF CONTENTS".
C6_NoHeadingLeft ==
    pc = "texted" =>
        \A i \in DOMAIN table : ~HasHeading(Field(table[i], SUBSECTION_TEXT))

\* C6 as amended: the attached text is the sliced text less every character
\* that lay inside an occurrence of the heading in the slice.
C6_HeadingsOfSliceRemoved ==
    pc = "texted" =>
        \A i \in DOMAIN table :
            LET slice == BodySlice(table, i, document)
            IN  Field(table[i], SUBSECTION_TEXT) = Without(slice, InsideHeading(slice), 1)

\* a slice that began with the heading, which was removed
C6_Witness ==
    /\ pc = "texted"
    /\ \E i \in DOMAIN table :
          /\ BodySlice(table, i, document) = TABLE_OF_CONTENTS \o TitleA
          /\ Field(table[i], SUBSECTION_TEXT) = TitleA

\* no label, lower-cased and trimmed, is as similar to the lower-cased,
\* trimmed response as the threshold 0.6 asks: 2*M/T < 6/10 for each
NoCloseLabel(response) ==
    LET word == Lower(Strip(response))
    IN  \A k \in DOMAIN SectionLabel :
            LET x == Lower(Strip(SectionLabel[k]))
            IN  /\ Len(x) + Len(word) > 0
                /\ 20 * MatchedChars(x, word, 0, Len(x), 0, Len(word))
                       < 6 * (Len(x) + Len(word))

\* C7: whatever string the classifier answers, the label attached to the
\* row is one of Termination, Indemnification, Confidentiality, Unknown, and
\* it is Unknown when the answer fuzzy-matches none of them.
C7_LabelInClosedSet ==
    pc = "labelled" =>
        \A i \in DOMAIN table :
            /\ Len(table[i]) = 8
            /\ table[i][8] \in {Termination, Indemnification, Confidentiality, Unknown}
            /\ NoCloseLabel(responses[i].output) => table[i][8] = Unknown

\* an answer that is a label cut too short to match was mapped to Unknown
C7_Witness ==
    /\ pc = "labelled"
    /\ responses[1].output = <<"I", "n", "d", "e", "m">>
    /\ NoCloseLabel(responses[1].output)
    /\ table[1][8] = Unknown

\* C10 as claimed: a prompt-service call that raises or answers something
\* malformed never stops the document: the mapper then gives the empty map,
\* the classifier the label Unknown, and no exception leaves the call.
C10_FailuresDoNotPropagate ==
    /\ error # "PromptServiceError"
    /\ \A i \in DOMAIN responses : responses[i].raised => pc # "failed"
    /\ (pc \notin {"opened", "indexed"} /\ ~responses[1].raised
            /\ ~responses[1].output.decodes) => section_subsection_page_map = <<>>

\* C11: in parallel directory mode distinct input documents are given
\* distinct output paths, and no output file is written by two tasks.
C11_OwnOutputFile ==
    /\ \A j, k \in DOMAIN args_list :
          args_list[j][1] # args_list[k][1] => args_list[j][2] # args_list[k][2]
    /\ \A f, g \in files : f[1] = g[1] => f[2] = g[2]

\* the closest-or-greater resolution of a set C of candidates against p: the
\* smallest candidate >= p, or the largest candidate when there is none
Resolution(C, p) ==
    IF \E c \in C : c >= p
    THEN CHOOSE c \in C : c >= p /\ \A d \in C : d >= p => c <= d
    ELSE CHOOSE c \in C : \A d \in C : d <= c

\* C12: every row's true start page is the closest-or-greater resolution of
\* the candidate list of its declared page label when that label is a key of
\* the index (also when its title is a key too), otherwise of the candidate
\* list of its title; the previous value is the true start page of the row
\* emitted just before (skipped entries do not count), and 0 for the first row.
C12_StartFromLabelThenTitle ==
    pc = "matched" =>
        \A i \in 1..Len(table) :
            LET row == table[i]
                label == Field(row, PAGE_NUMBER_START)
                candidates == IF InDict(label, built_map) THEN built_map[label.v]
                              ELSE built_map[Field(row, SUBSECTION)]
                previous == IF i = 1 THEN 0
                            ELSE Field(table[i - 1], TRUE_PAGE_NUMBER_START)
            IN  Field(row, TRUE_PAGE_NUMBER_START) = Resolution(Range(candidates), previous)

\* a row resolved by its title, an entry skipped, then a row whose label and
\* title are both keys, resolved by its label past a smaller candidate to a
\* page that the title's list does not hold
C12_Witness ==
    /\ pc = "matched"
    /\ Len(Flatten(section_subsection_page_map)) = 3
    /\ ~Resolvable(Flatten(section_subsection_page_map)[2])
    /\ Len(table) = 2
    /\ ~InDict(Field(table[1], PAGE_NUMBER_START), built_map)
    /\ Field(table[1], TRUE_PAGE_NUMBER_START) > 0
    /\ InDict(Field(table[2], PAGE_NUMBER_START), built_map)
    /\ Field(table[2], SUBSECTION) \in DOMAIN built_map
    /\ Field(table[2], TRUE_PAGE_NUMBER_START)
           \notin Range(built_map[Field(table[2], SUBSECTION)])
    /\ \E c \in Range(built_map[Field(table[2], PAGE_NUMBER_START).v]) :
           c < Field(table[2], TRUE_PAGE_NUMBER_START)

\* the concatenated text of pages true start..true end of row i, inclusive
SpanOf(i) ==
    LET first == Field(table[i], TRUE_PAGE_NUMBER_START)
        last == Field(table[i], TRUE_PAGE_NUMBER_END)
    IN  IF last < first THEN <<>>
        ELSE Join([k \in 1..(last - first + 1) |-> document[first + k].text])

\* title occurs in span at offset k
OccursAt(span, title, k) ==
    k + Len(title) <= Len(span) /\ SubSeq(span, k + 1, k + Len(title)) = title

Absent(span, title) == \A k \in 0..Len(span) : ~OccursAt(span, title, k)

FirstOccurrence(span, title) ==
    CHOOSE k \in 0..Len(span) :
        OccursAt(span, title, k) /\ \A j \in 0..(k - 1) : ~OccursAt(span, title, j)

\* the start offset of a row with this title in span
StartOffset(span, title) == IF Absent(span, title) THEN 0 ELSE FirstOccurrence(span, title)

\* the end offset of row i in span
EndOffset(span, i) ==
    IF i = Len(table) \/ Absent(span, Field(table[i + 1], SUBSECTION)) THEN Len(span)
    ELSE FirstOccurrence(span, Field(table[i + 1], SUBSECTION))

\* span[start:end]
BodyText(span, start, end) ==
    IF end <= start THEN <<>> ELSE [k \in 1..(end - start) |-> span[start + k]]

\* C13: add_subsection_text raises nothing and attaches to every row the
\* body text span[start:end] less the heading, where span is the text of the
\* row's pages, start is the first occurrence of the row's title in span or
\* 0, and end is the first occurrence of the next row's title in span,
\* searched from the beginning of span, or the length of span when the title
\* is absent or the row is the last; the body is empty when end <= start.
C13_BodyTextOffsets ==
    pc = "texted" =>
        /\ error = NoError
        /\ \A i \in DOMAIN table :
              \E span \in {SpanOf(i)} :
                 \E start \in {StartOffset(span, Field(table[i], SUBSECTION))} :
                    \E end \in {EndOffset(span, i)} :
                       /\ Len(table[i]) = 7
                       /\ Field(table[i], SUBSECTION_TEXT)
                              = Replace(BodyText(span, start, end), TABLE_OF_CONTENTS)
                       /\ end <= start => Field(table[i], SUBSECTION_TEXT) = <<>>

\* the next row's title occurs in a non-empty span before the row's own
\* title, so the first row's body is empty; the last row's body is not
C13_Witness ==
    /\ pc = "texted"
    /\ Len(table) = 2
    /\ ~Absent(SpanOf(1), Field(table[1], SUBSECTION))
    /\ ~Absent(SpanOf(1), Field(table[2], SUBSECTION))
    /\ EndOffset(SpanOf(1), 1) < StartOffset(SpanOf(1), Field(table[1], SUBSECTION))
    /\ Field(table[1], SUBSECTION_TEXT) = <<>>
    /\ Absent(SpanOf(2), Field(table[2], SUBSECTION))
    /\ Field(table[2], SUBSECTION_TEXT) # <<>>

\* an entry that create_table resolves with an empty candidate list
Unanswerable(e) == Resolvable(e) /\ CandidatesOf(e) = <<>>

\* C14: find_closest_or_greater refuses an empty candidate list by raising
\* instead of returning a page; create_table raises exactly when an entry it
\* resolves has an empty list, with that ValueError and no record appended;
\* and with an index built by get_text_true_page_mapping no key maps to an
\* empty list and the pipeline never sees that error.
C14_EmptyListRefused ==
    /\ (pc = "returned" /\ args.page_numbers = <<>>) =>
           ret.raised /\ ret.value = None /\ error = "ValueError"
    /\ pc = "refused" =>
           /\ error = "ValueError"
           /\ table = <<>>
           /\ \E k \in DOMAIN Flatten(section_subsection_page_map) :
                  Unanswerable(Flatten(section_subsection_page_map)[k])
    /\ pc = "created" =>
           /\ error = NoError
           /\ \A k \in DOMAIN Flatten(section_subsection_page_map) :
                  ~Unanswerable(Flatten(section_subsection_page_map)[k])
    /\ pc \in {"indexed", "mapped", "matched", "ended", "texted", "labelled", "done", "failed"} =>
           /\ \A key \in DOMAIN text_true_page_map : text_true_page_map[key] # <<>>
           /\ error # "ValueError"

\* a hand-written index whose second resolved entry has no candidate page:
\* the call is refused after a first entry was resolved, and no row is returned
C14_Witness ==
    /\ pc = "refused"
    /\ Len(Flatten(section_subsection_page_map)) >= 2
    /\ Resolvable(Flatten(section_subsection_page_map)[1])
    /\ ~Unanswerable(Flatten(section_subsection_page_map)[1])
    /\ Unanswerable(Flatten(section_subsection_page_map)[2])
    /\ table = <<>>

====
